---- MODULE Spec2Model ----
(***************************************************************************)
(* fix_linkshortener.py: read LinkShortener.tsx, delete every match of the *)
(* "creation secret" block pattern, then every match of the field          *)
(* declaration pattern, write the result to LinkShortener_clean.tsx and    *)
(* print a success line.                                                   *)
(*                                                                         *)
(* A text is a sequence of one-character strings; a file holds the        *)
(* characters its bytes encode.  Both files are opened in text mode, so    *)
(* line ends are translated on the way in and on the way out.  The two     *)
(* re.sub calls are modelled by a backtracking matcher over the pattern's  *)
(* elements and a left-to-right scan, as the re module performs them.      *)
(***************************************************************************)
EXTENDS Integers, Sequences, FiniteSets, TLC

VARIABLES pc, fs, handles, content, cleaned_content, stdout, error, exitStatus, linesep

vars == <<pc, fs, handles, content, cleaned_content, stdout, error, exitStatus, linesep>>

----------------------------------------------------------------------------
(* Paths, literals *)

InputPath == "LinkShortener.tsx"

\* The output written over the input.
OutputPathSameAsInput == "LinkShortener.tsx"

OutputPath == "LinkShortener_clean.tsx"

Paths == {InputPath, OutputPath}

SuccessLine == "File cleaned successfully!"

\* The members of the class \s that occur in the modelled texts.
Whitespace == {" ", "\n", "\t", "\r"}

\* {/\* Creation Secret \*/}
Marker == <<"{", "/", "*", " ", "C", "r", "e", "a", "t", "i", "o", "n", " ", "S", "e", "c", "r", "e", "t", " ", "*", "/", "}">>

\* shortenedLink\.creationSecret &&
Guard == <<"s", "h", "o", "r", "t", "e", "n", "e", "d", "L", "i", "n", "k", ".", "c", "r", "e", "a", "t", "i", "o", "n", "S", "e", "c", "r", "e", "t", " ", "&", "&">>

\* creationSecret\?:
DeclName == <<"c", "r", "e", "a", "t", "i", "o", "n", "S", "e", "c", "r", "e", "t", "?", ":">>

\* string
TypeName == <<"s", "t", "r", "i", "n", "g">>

----------------------------------------------------------------------------
(* Regular expressions: a pattern is a sequence of elements.               *)
(*   lit    the characters s, in order                                     *)
(*   ws     \s*      greedy, gives characters back on failure              *)
(*   lazy   [\s\S]*? takes as few characters as the rest allows            *)
(*   opt    s?       takes s when it can, otherwise nothing                *)

Lit(s) == [kind |-> "lit", s |-> s]

WsStar == [kind |-> "ws", s |-> <<>>]

LazyAny == [kind |-> "lazy", s |-> <<>>]

Opt(s) == [kind |-> "opt", s |-> s]

\* The block pattern closing on \)\s*} instead of }\)\s*}.
patternCloseParenOnly ==
  << WsStar, Lit(Marker), WsStar, Lit(<<"{">>), WsStar, Lit(Guard),
     LazyAny, Lit(<<")">>), WsStar, Lit(<<"}">>) >>

\* \s*{/\* Creation Secret \*/}\s*{\s*shortenedLink\.creationSecret &&[\s\S]*?}\)\s*}
pattern ==
  << WsStar, Lit(Marker), WsStar, Lit(<<"{">>), WsStar, Lit(Guard),
     LazyAny, Lit(<<"}", ")">>), WsStar, Lit(<<"}">>) >>

\* creationSecret\?:\s*string;?\s*
PatternB ==
  << Lit(DeclName), WsStar, Lit(TypeName), Opt(<<";">>), WsStar >>

\* t has the characters s at positions i .. i+Len(s)-1
StartsWith(t, i, s) ==
  /\ i + Len(s) - 1 <= Len(t)
  /\ \A k \in 1..Len(s) : t[i + k - 1] = s[k]

Min(S) == CHOOSE x \in S : \A y \in S : x <= y

Max(S) == CHOOSE x \in S : \A y \in S : y <= x

\* The first position at or after i that holds no whitespace.
WsEnd(t, i) ==
  Min({ j \in i..(Len(t) + 1) : j = Len(t) + 1 \/ t[j] \notin Whitespace })

\* Elements k.. of p matched against t from position i: the position after
\* the match, or 0 when there is none.  A greedy star tries the longest run
\* first and gives characters back one at a time; a lazy star tries no
\* character first and takes one more at a time.
RECURSIVE MatchFrom(_, _, _, _)
MatchFrom(p, k, t, i) ==
  IF k > Len(p) THEN i
  ELSE LET e == p[k] IN
    CASE e.kind = "lit" ->
           IF StartsWith(t, i, e.s) THEN MatchFrom(p, k + 1, t, i + Len(e.s)) ELSE 0
      [] e.kind = "ws" ->
           LET J == { j \in i..WsEnd(t, i) : MatchFrom(p, k + 1, t, j) # 0 }
           IN IF J = {} THEN 0 ELSE MatchFrom(p, k + 1, t, Max(J))
      [] e.kind = "lazy" ->
           LET J == { j \in i..(Len(t) + 1) : MatchFrom(p, k + 1, t, j) # 0 }
           IN IF J = {} THEN 0 ELSE MatchFrom(p, k + 1, t, Min(J))
      [] e.kind = "opt" ->
           LET taken == IF StartsWith(t, i, e.s)
                        THEN MatchFrom(p, k + 1, t, i + Len(e.s)) ELSE 0
           IN IF taken # 0 THEN taken ELSE MatchFrom(p, k + 1, t, i)

\* re.sub(p, '', t) from position pos: the text up to the leftmost match that
\* starts at or after pos is kept, the match is dropped, and the scan goes on
\* after it.  (Neither pattern matches the empty string.)
RECURSIVE SubFrom(_, _, _)
SubFrom(p, t, pos) ==
  LET S == { s \in pos..Len(t) : MatchFrom(p, 1, t, s) > s } IN
  IF S = {} THEN SubSeq(t, pos, Len(t))
  ELSE SubSeq(t, pos, Min(S) - 1) \o SubFrom(p, t, MatchFrom(p, 1, t, Min(S)))

ReSub(p, t) == SubFrom(p, t, 1)

\* re.search(p, t) is not None
HasMatch(p, t) == \E i \in 1..(Len(t) + 1) : MatchFrom(p, 1, t, i) # 0

\* s in t
Contains(t, s) == \E i \in 1..(Len(t) + 1) : StartsWith(t, i, s)

----------------------------------------------------------------------------
(* Files *)

\* A byte that no UTF-8 text holds.
InvalidByte == "0xFF"

\* The utf-8 codec accepts the data.
Utf8Valid(data) == \A i \in 1..Len(data) : data[i] # InvalidByte

\* A carriage return that a line feed follows.
IsCrOfCrLf(pr) == pr[1] = "\r" /\ pr[2] = "\n"

NotCrOfCrLf(pr) == ~IsCrOfCrLf(pr)

\* Reading in text mode with newline=None: \r\n and a lone \r become \n.
UniversalNewlines(data) ==
  LET pairs == [i \in 1..Len(data) |->
                  <<data[i], IF i < Len(data) THEN data[i + 1] ELSE "">>]
      kept == SelectSeq(pairs, NotCrOfCrLf)
  IN [k \in 1..Len(kept) |-> IF kept[k][1] = "\r" THEN "\n" ELSE kept[k][1]]

\* Writing in text mode with newline=None: every \n becomes os.linesep.
RECURSIVE TranslateNewlines(_, _)
TranslateNewlines(text, sep) ==
  IF Len(text) = 0 THEN <<>>
  ELSE IF Len(text) = 1 THEN (IF text[1] = "\n" THEN sep ELSE text)
  ELSE LET h == Len(text) \div 2 IN
       TranslateNewlines(SubSeq(text, 1, h), sep)
         \o TranslateNewlines(SubSeq(text, h + 1, Len(text)), sep)

\* os.linesep: POSIX, Windows.
LineSeps == { <<"\n">>, <<"\r", "\n">> }

NoFile == [exists |-> FALSE, readable |-> FALSE, data |-> <<>>]

File(d) == [exists |-> TRUE, readable |-> TRUE, data |-> d]

Unreadable(d) == [exists |-> TRUE, readable |-> FALSE, data |-> d]

NoError == [type |-> "none", path |-> ""]

Error(t, p) == [type |-> t, path |-> p]

----------------------------------------------------------------------------
(* The inputs *)

MaxPieces == 3

Pieces ==
  << <<"\n">>, Marker, <<"{">> \o Guard, <<"}", ")">>, <<"}">>,
     DeclName, TypeName \o <<";">> >>

RECURSIVE Flatten(_)
Flatten(ps) == IF ps = <<>> THEN <<>> ELSE Pieces[Head(ps)] \o Flatten(Tail(ps))

PieceTexts ==
  { Flatten(ps) : ps \in UNION { [1..n -> 1..Len(Pieces)] : n \in 0..MaxPieces } }

Block == Marker \o <<"{">> \o Guard \o <<"}", ")", "}">>

Scenario == <<"{", "/", "*", " ", "C", "r", "e", "a", "t", "i", "o", "n", " ", "S", "e", "c", "r", "e", "t", " ", "*", "/", "}", "\n", "{", "\n", " ", " ", "s", "h", "o", "r", "t", "e", "n", "e", "d", "L", "i", "n", "k", ".", "c", "r", "e", "a", "t", "i", "o", "n", "S", "e", "c", "r", "e", "t", " ", "&", "&", "\n", " ", " ", "r", "e", "n", "d", "e", "r", "S", "e", "c", "r", "e", "t", "(", ")", "\n", "}", "\n", "c", "r", "e", "a", "t", "i", "o", "n", "S", "e", "c", "r", "e", "t", "?", ":", " ", "s", "t", "r", "i", "n", "g", ";", "\n">>

ScenarioBlock == <<"{", "/", "*", " ", "C", "r", "e", "a", "t", "i", "o", "n", " ", "S", "e", "c", "r", "e", "t", " ", "*", "/", "}", "\n", "{", "\n", " ", " ", "s", "h", "o", "r", "t", "e", "n", "e", "d", "L", "i", "n", "k", ".", "c", "r", "e", "a", "t", "i", "o", "n", "S", "e", "c", "r", "e", "t", " ", "&", "&", "\n", " ", " ", "r", "e", "n", "d", "e", "r", "S", "e", "c", "r", "e", "t", "(", ")", "\n", "}">>

ScenarioDecl == <<"c", "r", "e", "a", "t", "i", "o", "n", "S", "e", "c", "r", "e", "t", "?", ":", " ", "s", "t", "r", "i", "n", "g", ";">>

ScenarioKept == <<"{", "/", "*", " ", "C", "r", "e", "a", "t", "i", "o", "n", " ", "S", "e", "c", "r", "e", "t", " ", "*", "/", "}", "\n", "{", "\n", " ", " ", "s", "h", "o", "r", "t", "e", "n", "e", "d", "L", "i", "n", "k", ".", "c", "r", "e", "a", "t", "i", "o", "n", "S", "e", "c", "r", "e", "t", " ", "&", "&", "\n", " ", " ", "r", "e", "n", "d", "e", "r", "S", "e", "c", "r", "e", "t", "(", ")", "\n", "}", "\n">>

\* A block inside a marker and a block's remainder.
NestedBlock == Marker \o Block \o <<"{">> \o Guard \o <<"}", ")", "}">>

\* A declaration between a block's }) and its }.
SplitBlock ==
  Marker \o <<"{">> \o Guard \o <<"}", ")">> \o DeclName \o <<" ">> \o TypeName \o <<"}">>

CrLfText == <<"a", "\r", "\n", "b", "\r", "c">>

\* A declaration inside a declaration.
NestedDecl == DeclName \o DeclName \o TypeName \o <<";">> \o TypeName \o <<";">>

Scenarios ==
  { Scenario, Block, NestedBlock, SplitBlock, NestedDecl, CrLfText,
    <<"a", "\n", "{", "/", "*", " ", "C", "r", "e", "a", "t", "i", "o", "n", " ", "S", "e", "c", "r", "e", "t", " ", "*", "/", "}", "\n", "{", " ", "s", "h", "o", "r", "t", "e", "n", "e", "d", "L", "i", "n", "k", ".", "c", "r", "e", "a", "t", "i", "o", "n", "S", "e", "c", "r", "e", "t", " ", "&", "&", " ", "x", "}", ")", "\n", "}", "b">>,
    <<"{", "/", "*", " ", "C", "r", "e", "a", "t", "i", "o", "n", " ", "S", "e", "c", "r", "e", "t", " ", "*", "/", "}", "{", "s", "h", "o", "r", "t", "e", "n", "e", "d", "L", "i", "n", "k", ".", "c", "r", "e", "a", "t", "i", "o", "n", "S", "e", "c", "r", "e", "t", " ", "&", "&", "}", ")", "}", " ", "x", " ", "}", ")", "}">>,
    <<"a", "\r", "\n", "{", "/", "*", " ", "C", "r", "e", "a", "t", "i", "o", "n", " ", "S", "e", "c", "r", "e", "t", " ", "*", "/", "}", "\r", "\n", "{", "\t", "s", "h", "o", "r", "t", "e", "n", "e", "d", "L", "i", "n", "k", ".", "c", "r", "e", "a", "t", "i", "o", "n", "S", "e", "c", "r", "e", "t", " ", "&", "&", " ", "(", "x", "}", ")", "\r", "\n", "}", "\r", "\n", "c", "r", "e", "a", "t", "i", "o", "n", "S", "e", "c", "r", "e", "t", "?", ":", "\r", "\n", " ", "s", "t", "r", "i", "n", "g", "\r", "\n", "b">>,
    <<"a", ";", "\n", "c", "r", "e", "a", "t", "i", "o", "n", "S", "e", "c", "r", "e", "t", "?", ":", "s", "t", "r", "i", "n", "g", "\n", "b">>,
    <<"a", ":", " ", "n", "u", "m", "b", "e", "r", ";", "\n">> }

Texts == PieceTexts \cup Scenarios

OldOutput == <<"o", "l", "d">>

----------------------------------------------------------------------------
(* The run *)

Init ==
  /\ pc = "open_in"
  /\ \E fin \in { File(t) : t \in Texts }
               \cup { NoFile, Unreadable(Block), File(<<"a", InvalidByte>>) },
        fout \in { NoFile, File(OldOutput) } :
       fs = [p \in Paths |-> IF p = InputPath THEN fin ELSE fout]
  /\ linesep \in LineSeps
  /\ handles = {}
  /\ content = <<>>
  /\ cleaned_content = <<>>
  /\ stdout = <<>>
  /\ error = NoError
  /\ exitStatus = <<>>

\* An exception nothing catches: the traceback goes to stderr, exit status 1.
Raise(e) ==
  /\ error' = e
  /\ pc' = "failed"
  /\ exitStatus' = <<1>>

\* Both files opened by the first with statement.
OpenInputAndOutput ==
  /\ pc = "open_in"
  /\ fs' = [fs EXCEPT ![OutputPath] = File(<<>>)]
  /\ IF fs[InputPath].exists /\ fs[InputPath].readable
     THEN /\ handles' = handles \cup {"in"}
          /\ pc' = "read"
          /\ UNCHANGED <<error, exitStatus>>
     ELSE /\ Raise(Error(IF fs[InputPath].exists THEN "PermissionError"
                         ELSE "FileNotFoundError", InputPath))
          /\ UNCHANGED handles
  /\ UNCHANGED <<content, cleaned_content, stdout, linesep>>

\* open('LinkShortener.tsx', 'r', encoding='utf-8')
OpenInput ==
  /\ pc = "open_in"
  /\ IF fs[InputPath].exists /\ fs[InputPath].readable
     THEN /\ handles' = handles \cup {"in"}
          /\ pc' = "read"
          /\ UNCHANGED <<error, exitStatus>>
     ELSE /\ Raise(Error(IF fs[InputPath].exists THEN "PermissionError"
                         ELSE "FileNotFoundError", InputPath))
          /\ UNCHANGED handles
  /\ UNCHANGED <<fs, content, cleaned_content, stdout, linesep>>

\* content = f.read()
ReadInput ==
  /\ pc = "read"
  /\ IF Utf8Valid(fs[InputPath].data)
     THEN /\ content' = UniversalNewlines(fs[InputPath].data)
          /\ pc' = "close_in"
          /\ UNCHANGED error
     ELSE /\ error' = Error("UnicodeDecodeError", InputPath)
          /\ pc' = "unwind_in"
          /\ UNCHANGED content
  /\ UNCHANGED <<fs, handles, cleaned_content, stdout, exitStatus, linesep>>

\* The input closed by an f.close() after the read, which an exception skips.
CloseInputSkippedOnError ==
  /\ pc \in {"close_in", "unwind_in"}
  /\ IF pc = "close_in"
     THEN /\ handles' = handles \ {"in"}
          /\ pc' = "sub_a"
          /\ UNCHANGED <<error, exitStatus>>
     ELSE /\ Raise(error)
          /\ UNCHANGED handles
  /\ UNCHANGED <<fs, content, cleaned_content, stdout, linesep>>

\* The with statement's exit after the read, with or without an exception.
CloseInput ==
  /\ pc \in {"close_in", "unwind_in"}
  /\ handles' = handles \ {"in"}
  /\ IF pc = "close_in"
     THEN pc' = "sub_a" /\ UNCHANGED <<error, exitStatus>>
     ELSE Raise(error)
  /\ UNCHANGED <<fs, content, cleaned_content, stdout, linesep>>

\* cleaned_content = re.sub(pattern, '', content)
RemoveA ==
  /\ pc = "sub_a"
  /\ cleaned_content' = ReSub(pattern, content)
  /\ pc' = "sub_b"
  /\ UNCHANGED <<fs, handles, content, stdout, error, exitStatus, linesep>>

\* cleaned_content = re.sub(r'creationSecret\?:\s*string;?\s*', '', cleaned_content)
RemoveB ==
  /\ pc = "sub_b"
  /\ cleaned_content' = ReSub(PatternB, cleaned_content)
  /\ pc' = "open_out"
  /\ UNCHANGED <<fs, handles, content, stdout, error, exitStatus, linesep>>

\* The output opened with mode 'a': an existing file keeps its content.
OpenOutputAppend ==
  /\ pc = "open_out"
  /\ fs' = [fs EXCEPT ![OutputPath] = IF @.exists THEN @ ELSE File(<<>>)]
  /\ handles' = handles \cup {"out"}
  /\ pc' = "write"
  /\ UNCHANGED <<content, cleaned_content, stdout, error, exitStatus, linesep>>

\* open('LinkShortener_clean.tsx', 'w', encoding='utf-8'): the file is
\* created or truncated as it is opened.
OpenOutput ==
  /\ pc = "open_out"
  /\ fs' = [fs EXCEPT ![OutputPath] = File(<<>>)]
  /\ handles' = handles \cup {"out"}
  /\ pc' = "write"
  /\ UNCHANGED <<content, cleaned_content, stdout, error, exitStatus, linesep>>

\* The same call when the system refuses it (no permission, a directory in the
\* way): nothing is created or truncated.
OpenOutputFails ==
  /\ pc = "open_out"
  /\ Raise(Error("PermissionError", OutputPath))
  /\ UNCHANGED <<fs, handles, content, cleaned_content, stdout, linesep>>

\* The success line printed inside the with block, before the write.
WriteOutputAfterReport ==
  /\ pc = "write"
  /\ stdout' = Append(stdout, SuccessLine)
  /\ fs' = [fs EXCEPT ![OutputPath].data = @ \o TranslateNewlines(cleaned_content, linesep)]
  /\ pc' = "close_out"
  /\ UNCHANGED <<handles, content, cleaned_content, error, exitStatus, linesep>>

\* f.write(cleaned_content)
WriteOutput ==
  /\ pc = "write"
  /\ fs' = [fs EXCEPT ![OutputPath].data = @ \o TranslateNewlines(cleaned_content, linesep)]
  /\ pc' = "close_out"
  /\ UNCHANGED <<handles, content, cleaned_content, stdout, error, exitStatus, linesep>>

\* The same call when the device refuses the data: the file stays as opened.
WriteOutputFails ==
  /\ pc = "write"
  /\ error' = Error("OSError", OutputPath)
  /\ pc' = "unwind_out"
  /\ UNCHANGED <<fs, handles, content, cleaned_content, stdout, exitStatus, linesep>>

\* The with statement's exit after the write, with or without an exception.
CloseOutput ==
  /\ pc \in {"close_out", "unwind_out"}
  /\ handles' = handles \ {"out"}
  /\ IF pc = "close_out"
     THEN pc' = "report" /\ UNCHANGED <<error, exitStatus>>
     ELSE Raise(error)
  /\ UNCHANGED <<fs, content, cleaned_content, stdout, linesep>>

\* print("File cleaned successfully!")
Report ==
  /\ pc = "report"
  /\ stdout' = Append(stdout, SuccessLine)
  /\ pc' = "exit"
  /\ UNCHANGED <<fs, handles, content, cleaned_content, error, exitStatus, linesep>>

\* The end of the module: the interpreter exits with status 0.
Finish ==
  /\ pc = "exit"
  /\ exitStatus' = <<0>>
  /\ pc' = "done"
  /\ UNCHANGED <<fs, handles, content, cleaned_content, stdout, error, linesep>>

Next ==
  \/ OpenInput
  \/ ReadInput
  \/ CloseInput
  \/ RemoveA
  \/ RemoveB
  \/ OpenOutput
  \/ OpenOutputFails
  \/ WriteOutput
  \/ WriteOutputFails
  \/ CloseOutput
  \/ Report
  \/ Finish

Spec == Init /\ [][Next]_vars

----------------------------------------------------------------------------
(* Properties *)

\* The input file as the script reads it.
InputText == UniversalNewlines(fs[InputPath].data)

\* The output file as a reader in text mode sees it.
OutputText == UniversalNewlines(fs[OutputPath].data)

\* Both substitutions, in the script's order.
Clean(t) == ReSub(PatternB, ReSub(pattern, t))

\* What a run leaves in the output file for the input data d.
RunOn(d, sep) == TranslateNewlines(Clean(UniversalNewlines(d)), sep)

Succeeded == pc = "done"

\* C1, as stated: for the scenario input the output has lost both the
\* conditional block (marker through closing brace) and the declaration line.
C1_ScenarioBothRemoved ==
  (Succeeded /\ InputText = Scenario) =>
    /\ ~Contains(OutputText, ScenarioBlock)
    /\ ~Contains(OutputText, ScenarioDecl)

\* C1, amended: for the scenario input the output is the input without the
\* declaration line; the conditional block, which does not end in }) and },
\* is kept.
C1_ScenarioDeclOnlyRemoved ==
  (Succeeded /\ InputText = Scenario) => OutputText = ScenarioKept

C1_Witness == Succeeded /\ InputText = Scenario /\ fs[OutputPath].exists

\* C2: running the script on its own output leaves that output unchanged.
C2_Idempotent ==
  Succeeded => RunOn(fs[OutputPath].data, linesep) = fs[OutputPath].data

\* C3: when the input holds a match of the declaration pattern, the output
\* holds none.
C3_NoDeclarationLeft ==
  (Succeeded /\ HasMatch(PatternB, InputText)) =>
    ~HasMatch(PatternB, fs[OutputPath].data)

\* C4: when the input holds a match of the block pattern, the output does not
\* hold the marker comment.
C4_NoMarkerLeft ==
  (Succeeded /\ HasMatch(pattern, InputText)) =>
    ~Contains(fs[OutputPath].data, Marker)

\* C5: when neither pattern matches the input, the run succeeds and the output
\* file holds exactly the bytes of the input file.
C5_NoMatchSameBytes ==
  (~HasMatch(pattern, InputText) /\ ~HasMatch(PatternB, InputText)) =>
    /\ pc \in {"sub_a", "sub_b", "open_out"} => error = NoError
    /\ Succeeded => fs[OutputPath].data = fs[InputPath].data

\* C6: no step of any run, successful or failed, changes the input file.
C6_InputUntouched == [][fs'[InputPath] = fs[InputPath]]_vars

C6_Witness ==
  /\ Succeeded
  /\ fs[InputPath].data # <<>>
  /\ fs[OutputPath].data # fs[InputPath].data

\* C7: after a successful run the output file holds, as text, the input string
\* with every match of the block pattern removed and then every match of the
\* declaration pattern removed, and nothing of what the file held before.
C7_OutputIsCleanedInput ==
  pc \in {"close_out", "report", "exit", "done"} =>
    OutputText = ReSub(PatternB, ReSub(pattern, InputText))

C7_Witness ==
  /\ Succeeded
  /\ HasMatch(pattern, InputText)
  /\ HasMatch(PatternB, ReSub(pattern, InputText))
  /\ OutputText # <<>>

\* The steps of a run, in order.
StepOrder ==
  << "open_in", "read", "close_in", "sub_a", "sub_b",
     "open_out", "write", "close_out", "report", "exit", "done" >>

\* C8: every step leads to the next one of load, remove A, remove B, save,
\* report, or (before the report) to the failure of the run, so no step
\* happens twice; the success line is the only output, printed once, after the
\* output file is written and closed; a run that reaches the report goes on to
\* exit with status 0.
C8_LinearOnce ==
  /\ [][ \/ \E k \in 1..(Len(StepOrder) - 1) :
              /\ pc = StepOrder[k]
              /\ \/ pc' = StepOrder[k + 1]
                 \/ k < 9 /\ pc' \in {"unwind_in", "unwind_out", "failed"}
         \/ pc \in {"unwind_in", "unwind_out"} /\ pc' = "failed" ]_vars
  /\ [](stdout = IF pc \in {"exit", "done"} THEN <<SuccessLine>> ELSE <<>>)
  /\ [](pc \in {"report", "exit", "done"} =>
          /\ "out" \notin handles
          /\ fs[OutputPath].data = TranslateNewlines(cleaned_content, linesep))
  /\ [](pc \in {"report", "exit"} => ENABLED Next)
  /\ [](pc = "done" <=> exitStatus = <<0>>)

C8_Witness == pc = "done" /\ stdout = <<SuccessLine>> /\ exitStatus = <<0>>

\* The errors of the load step.
LoadFailed == error.type # "none" /\ error.path = InputPath

\* C9: after an error no later step runs, the success line is not printed and
\* the exit status is not 0; no step of the load, failed or not, creates,
\* truncates or changes the output file, which only the save step touches.
C9_ErrorsAreFatal ==
  /\ [](error # NoError =>
          /\ pc \in {"unwind_in", "unwind_out", "failed"}
          /\ stdout = <<>>
          /\ exitStatus # <<0>>)
  /\ [](pc = "failed" => error # NoError /\ exitStatus = <<1>> /\ ~ENABLED Next)
  /\ [](LoadFailed => pc \in {"unwind_in", "failed"} /\ cleaned_content = <<>>)
  /\ [][ (fs'[OutputPath] # fs[OutputPath]) =>
           (pc \in {"open_out", "write"} /\ error = NoError) ]_vars
  /\ [][ (pc \in {"open_in", "read", "close_in", "unwind_in"} \/ LoadFailed') =>
           fs'[OutputPath] = fs[OutputPath] ]_vars

C9_Witness ==
  /\ pc = "failed"
  /\ error.type = "UnicodeDecodeError"
  /\ fs[OutputPath] = File(OldOutput)

\* C10: at most one file is open at any time; the input is closed before the
\* first substitution and before the output is opened; nothing is open once
\* the run has ended, in success or in failure.
C10_HandlesScoped ==
  /\ Cardinality(handles) <= 1
  /\ "in" \in handles => pc \in {"read", "close_in", "unwind_in"}
  /\ "out" \in handles => pc \in {"write", "close_out", "unwind_out"}
  /\ pc \in {"done", "failed"} => handles = {}

C10_Witness ==
  /\ pc = "failed"
  /\ error.type = "OSError"
  /\ handles = {}

====
